---- MODULE Spec2Model ----
(***************************************************************************)
(* Shader layout reflection (src/src/render/shader_reflect.rs).            *)
(*                                                                         *)
(* get_shader_layout loads a SPIR-V module through spirv_reflect and        *)
(* translates its descriptor sets, bindings and type trees into a          *)
(* ShaderLayout.  Every function of the file is a pure function of what    *)
(* the reflection library reports, so each is an operator here, and the    *)
(* actions apply them to inputs drawn from bounded sets.  A Rust panic is  *)
(* an outcome of its own (tag "Panic") carrying the panic's message and    *)
(* the values formatted into it.                                           *)
(***************************************************************************)
EXTENDS Naturals, Sequences, FiniteSets

VARIABLES call, root, stack, visited, result

vars == <<call, root, stack, visited, result>>

(***************************************************************************)
(* Bounds of the model.                                                    *)
(***************************************************************************)
\* longest member list of a struct type
MaxMembers == 2
\* most bindings of a descriptor set
MaxBindings == 2
\* most descriptor sets of a module
MaxSets == 2
\* largest signedness trait value tried (0 and 1 are the valid ones)
MaxSignedness == 2
\* largest column, row and component count tried
MaxCount == 4

(***************************************************************************)
(* Outcomes: a returned value, or a panic.  Option values.                 *)
(***************************************************************************)
Ok(v) == [tag |-> "Ok", val |-> v]

Panic(msg, args) == [tag |-> "Panic", msg |-> msg, args |-> args]

None == [tag |-> "None"]

Some(v) == [tag |-> "Some", val |-> v]

(***************************************************************************)
(* What spirv_reflect reports.                                             *)
(***************************************************************************)
\* ReflectTypeFlags bits the code tests, and VECTOR as a bit it does not test
ReflectTypeFlags == {"STRUCT", "INT", "FLOAT", "VECTOR", "MATRIX"}

ReflectDimension ==
    {"Undefined", "Type1d", "Type2d", "Type3d", "Cube", "Rect", "Buffer", "SubpassData"}

ReflectDescriptorType ==
    {"Undefined", "Sampler", "CombinedImageSampler", "SampledImage", "StorageImage",
     "UniformTexelBuffer", "StorageTexelBuffer", "UniformBuffer", "StorageBuffer",
     "UniformBufferDynamic", "StorageBufferDynamic", "InputAttachment",
     "AccelerationStructureNV"}

\* a ReflectTypeDescription: the fields the code reads
TypeDescription(name, flags, sign, cols, rows, comps, dim, members) ==
    [type_name |-> name, type_flags |-> flags, signedness |-> sign,
     column_count |-> cols, row_count |-> rows, component_count |-> comps,
     dim |-> dim, members |-> members]

\* a ReflectDescriptorBinding: the fields the code reads
DescriptorBinding(index, name, kind, type) ==
    [binding |-> index, name |-> name, descriptor_type |-> kind,
     type_description |-> type]

\* a ReflectDescriptorSet
DescriptorSet(set, bindings) == [set |-> set, bindings |-> bindings]

(***************************************************************************)
(* render_graph values the code builds.                                    *)
(***************************************************************************)
\* UniformPropertyType: the unit variants, and Struct(properties)
UniformPropertyType(variant) == [variant |-> variant]

Struct(properties) == [variant |-> "Struct", properties |-> properties]

UniformProperty(name, property_type) == [name |-> name, property_type |-> property_type]

\* BindType
Uniform(dynamic, properties) ==
    [variant |-> "Uniform", dynamic |-> dynamic, properties |-> properties]

SampledTexture(dimension, multisampled) ==
    [variant |-> "SampledTexture", dimension |-> dimension, multisampled |-> multisampled]

Sampler == [variant |-> "Sampler"]

Binding(index, bind_type, name) == [index |-> index, bind_type |-> bind_type, name |-> name]

\* BindGroup::new(set, bindings), of render_graph: the set's index and the
\* bindings as given
BindGroup_new(set, bindings) == [set |-> set, bindings |-> bindings]

ShaderLayout(bind_groups, entry_point) ==
    [bind_groups |-> bind_groups, entry_point |-> entry_point]

(***************************************************************************)
(* reflect_dimension                                                       *)
(***************************************************************************)
\* reflect_dimension with a fallback arm in place of the panic
reflect_dimension_fallback(type_description) ==
    CASE type_description.dim = "Type1d" -> Ok("D1")
      [] type_description.dim = "Type2d" -> Ok("D2")
      [] type_description.dim = "Type3d" -> Ok("D3")
      [] type_description.dim = "Cube" -> Ok("Cube")
      [] OTHER -> Ok("D2")

reflect_dimension(type_description) ==
    CASE type_description.dim = "Type1d" -> Ok("D1")
      [] type_description.dim = "Type2d" -> Ok("D2")
      [] type_description.dim = "Type3d" -> Ok("D3")
      [] type_description.dim = "Cube" -> Ok("Cube")
      [] OTHER -> Panic("unsupported image dimension", [dimension |-> type_description.dim])

(***************************************************************************)
(* reflect_uniform_numeric                                                 *)
(***************************************************************************)
\* number_type with the floating-point flag tested before the integer flag
number_type_float_first(type_description) ==
    IF "FLOAT" \in type_description.type_flags
    THEN Ok("Float")
    ELSE IF "INT" \in type_description.type_flags
         THEN CASE type_description.signedness = 0 -> Ok("UInt")
                [] type_description.signedness = 1 -> Ok("Int")
                [] OTHER -> Panic("unexpected signedness",
                                  [signedness |-> type_description.signedness])
         ELSE Panic("unexpected type flag", [type_flags |-> type_description.type_flags])

\* lines 133-146: the number class from the type flags and the signedness
number_type(type_description) ==
    IF "INT" \in type_description.type_flags
    THEN CASE type_description.signedness = 0 -> Ok("UInt")
           [] type_description.signedness = 1 -> Ok("Int")
           [] OTHER -> Panic("unexpected signedness",
                             [signedness |-> type_description.signedness])
    ELSE IF "FLOAT" \in type_description.type_flags
         THEN Ok("Float")
         ELSE Panic("unexpected type flag", [type_flags |-> type_description.type_flags])

\* matrix_format matching on the column count alone
matrix_format_columns_only(nt, column_count, row_count) ==
    CASE nt = "Float" /\ column_count = 3 -> Ok(UniformPropertyType("Mat3"))
      [] nt = "Float" /\ column_count = 4 -> Ok(UniformPropertyType("Mat4"))
      [] OTHER -> Panic("unexpected uniform property matrix format",
                        [number_type |-> nt, column_count |-> column_count,
                         row_count |-> row_count])

\* lines 154-165: the matrix match
matrix_format(nt, column_count, row_count) ==
    CASE nt = "Float" /\ column_count = 3 /\ row_count = 3 -> Ok(UniformPropertyType("Mat3"))
      [] nt = "Float" /\ column_count = 4 /\ row_count = 4 -> Ok(UniformPropertyType("Mat4"))
      [] OTHER -> Panic("unexpected uniform property matrix format",
                        [number_type |-> nt, column_count |-> column_count,
                         row_count |-> row_count])

\* lines 167-176: the vector match
vector_format(nt, component_count) ==
    CASE nt = "Int" /\ component_count = 1 -> Ok(UniformPropertyType("Int"))
      [] nt = "Float" /\ component_count = 3 -> Ok(UniformPropertyType("Vec3"))
      [] nt = "Float" /\ component_count = 4 -> Ok(UniformPropertyType("Vec4"))
      [] nt = "UInt" /\ component_count = 4 -> Ok(UniformPropertyType("UVec4"))
      [] OTHER -> Panic("unexpected uniform property format",
                        [number_type |-> nt, component_count |-> component_count])

reflect_uniform_numeric(type_description) ==
    LET nt == number_type(type_description)
    IN  IF nt.tag = "Panic"
        THEN nt
        ELSE IF "MATRIX" \in type_description.type_flags
             THEN matrix_format(nt.val, type_description.column_count,
                                type_description.row_count)
             ELSE vector_format(nt.val, type_description.component_count)

(***************************************************************************)
(* reflect_uniform and reflect_uniform_struct                              *)
(***************************************************************************)
RECURSIVE reflect_uniform(_), struct_members(_, _, _), struct_members_skip_unnamed(_, _, _)

\* struct_members leaving out the members whose name is empty
struct_members_skip_unnamed(members, i, properties) ==
    IF i > Len(members)
    THEN Ok(properties)
    ELSE IF members[i].type_name = ""
         THEN struct_members_skip_unnamed(members, i + 1, properties)
         ELSE LET p == reflect_uniform(members[i])
              IN  IF p.tag = "Panic"
                  THEN p
                  ELSE struct_members_skip_unnamed(members, i + 1, Append(properties, p.val))

\* lines 123-126: the loop over the members, from member i on, with the
\* properties pushed so far; a panic in a member ends it
struct_members(members, i, properties) ==
    IF i > Len(members)
    THEN Ok(properties)
    ELSE LET p == reflect_uniform(members[i])
         IN  IF p.tag = "Panic"
             THEN p
             ELSE struct_members(members, i + 1, Append(properties, p.val))

reflect_uniform_struct(type_description) ==
    LET properties == struct_members(type_description.members, 1, <<>>)
    IN  IF properties.tag = "Panic" THEN properties ELSE Ok(Struct(properties.val))

reflect_uniform(type_description) ==
    LET uniform_property_type ==
            IF "STRUCT" \in type_description.type_flags
            THEN reflect_uniform_struct(type_description)
            ELSE reflect_uniform_numeric(type_description)
    IN  IF uniform_property_type.tag = "Panic"
        THEN uniform_property_type
        ELSE Ok(UniformProperty(type_description.type_name, uniform_property_type.val))

(***************************************************************************)
(* reflect_binding                                                         *)
(***************************************************************************)
\* Option::unwrap
unwrap(option) ==
    IF option.tag = "Some" THEN Ok(option.val) ELSE Panic("unwrap on None", [none |-> TRUE])

reflect_binding(binding) ==
    LET type_description == unwrap(binding.type_description)
    IN  IF type_description.tag = "Panic"
        THEN type_description
        ELSE CASE binding.descriptor_type = "UniformBuffer" ->
                    LET p == reflect_uniform(type_description.val)
                    IN  IF p.tag = "Panic"
                        THEN p
                        ELSE Ok(Binding(binding.binding, Uniform(FALSE, <<p.val>>),
                                        type_description.val.type_name))
               [] binding.descriptor_type = "SampledImage" ->
                    LET d == reflect_dimension(type_description.val)
                    IN  IF d.tag = "Panic"
                        THEN d
                        ELSE Ok(Binding(binding.binding, SampledTexture(d.val, FALSE),
                                        binding.name))
               [] binding.descriptor_type = "Sampler" ->
                    Ok(Binding(binding.binding, Sampler, binding.name))
               [] OTHER -> Panic("unsupported bind type",
                                 [descriptor_type |-> binding.descriptor_type])

(***************************************************************************)
(* reflect_bind_group                                                      *)
(***************************************************************************)
RECURSIVE set_bindings(_, _, _)

\* lines 52-56: the loop over the bindings of the set
set_bindings(descriptor_bindings, i, bindings) ==
    IF i > Len(descriptor_bindings)
    THEN Ok(bindings)
    ELSE LET b == reflect_binding(descriptor_bindings[i])
         IN  IF b.tag = "Panic"
             THEN b
             ELSE set_bindings(descriptor_bindings, i + 1, Append(bindings, b.val))

reflect_bind_group(descriptor_set) ==
    LET bindings == set_bindings(descriptor_set.bindings, 1, <<>>)
    IN  IF bindings.tag = "Panic"
        THEN bindings
        ELSE Ok(BindGroup_new(descriptor_set.set, bindings.val))

(***************************************************************************)
(* get_shader_layout                                                       *)
(***************************************************************************)
\* Result::unwrap
unwrap_result(r) ==
    IF r.tag = "Ok" THEN r ELSE Panic("unwrap on Err", [err |-> r.err])

RECURSIVE module_bind_groups(_, _, _), module_bind_groups_merged(_, _, _)

\* module_bind_groups leaving out a set whose index an earlier set has
module_bind_groups_merged(descriptor_sets, i, bind_groups) ==
    IF i > Len(descriptor_sets)
    THEN Ok(bind_groups)
    ELSE IF \E k \in 1 .. Len(bind_groups) : bind_groups[k].set = descriptor_sets[i].set
         THEN module_bind_groups_merged(descriptor_sets, i + 1, bind_groups)
         ELSE LET g == reflect_bind_group(descriptor_sets[i])
              IN  IF g.tag = "Panic"
                  THEN g
                  ELSE module_bind_groups_merged(descriptor_sets, i + 1,
                                                 Append(bind_groups, g.val))

\* lines 36-40: the loop over the descriptor sets of the module
module_bind_groups(descriptor_sets, i, bind_groups) ==
    IF i > Len(descriptor_sets)
    THEN Ok(bind_groups)
    ELSE LET g == reflect_bind_group(descriptor_sets[i])
         IN  IF g.tag = "Panic"
             THEN g
             ELSE module_bind_groups(descriptor_sets, i + 1, Append(bind_groups, g.val))

\* spirv_data stands for what ShaderModule::load_u8_data reports of it:
\* [tag |-> "Err", err |-> e], or [tag |-> "Ok", val |-> module] where module
\* has the entry point name and what enumerate_descriptor_sets returns
get_shader_layout(spirv_data) ==
    IF spirv_data.tag = "Ok"
    THEN LET module == spirv_data.val
             entry_point_name == module.entry_point_name
             descriptor_sets == unwrap_result(module.descriptor_sets)
         IN  IF descriptor_sets.tag = "Panic"
             THEN descriptor_sets
             ELSE LET bind_groups == module_bind_groups(descriptor_sets.val, 1, <<>>)
                  IN  IF bind_groups.tag = "Panic"
                      THEN bind_groups
                      ELSE Ok(ShaderLayout(bind_groups.val, entry_point_name))
    ELSE Panic("Failed to reflect shader layout", [err |-> spirv_data.err])

(***************************************************************************)
(* Inputs: what the reflection library may report, within the bounds.      *)
(***************************************************************************)
Counts == 0 .. MaxCount

NoImage == "Undefined"

\* every flag combination with every signedness and shape, no members
LeafTypes ==
    { TypeDescription("", f, s, c, r, n, NoImage, <<>>) :
        f \in SUBSET ReflectTypeFlags, s \in 0 .. MaxSignedness,
        c \in Counts, r \in Counts, n \in Counts }

NumericTypes == { t \in LeafTypes : "STRUCT" \notin t.type_flags }

\* an image type of each dimensionality
ImageTypes ==
    { TypeDescription("", {}, 0, 0, 0, 0, d, <<>>) : d \in ReflectDimension }

\* the member types of the structs: an unnamed mat4, a vec3, an int, and a
\* type with neither the integer nor the floating-point flag
Mat4Type == TypeDescription("", {"FLOAT", "VECTOR", "MATRIX"}, 0, 4, 4, 4, NoImage, <<>>)

Vec3Type == TypeDescription("v", {"FLOAT", "VECTOR"}, 0, 0, 0, 3, NoImage, <<>>)

BoolType == TypeDescription("b", {"VECTOR"}, 0, 0, 0, 2, NoImage, <<>>)

MemberLeaves == {Mat4Type, Vec3Type, BoolType}

StructType(name, members) ==
    TypeDescription(name, {"STRUCT"}, 0, 0, 0, 0, NoImage, members)

SeqsUpTo(S, n) == UNION { [1 .. k -> S] : k \in 0 .. n }

\* the nested structs hold vec3 members and members that fail
InnerLeaves == {Vec3Type, BoolType}

\* structs of leaves, and structs of leaves and of such structs
InnerStructs == { StructType("Light", ms) : ms \in SeqsUpTo(InnerLeaves, MaxMembers) }

OuterStructs ==
    { StructType("Camera", ms) : ms \in SeqsUpTo(MemberLeaves \cup InnerStructs, MaxMembers) }

StructTypes == InnerStructs \cup OuterStructs

\* the uniform block of the test: Camera with one unnamed mat4 member
CameraType == StructType("Camera", <<Mat4Type>>)

\* a block with a nested struct that holds a vec3, then a mat4
NestedType == StructType("Camera", <<StructType("Light", <<Vec3Type>>), Mat4Type>>)

\* the types the bindings are given
BindingTypes ==
    ImageTypes \cup {CameraType, NestedType, StructType("Camera", <<Mat4Type, BoolType>>),
                     Vec3Type}

DescriptorBindings ==
    { DescriptorBinding(i, n, k, t) :
        i \in {0, 1}, n \in {"Texture", "u_camera"}, k \in ReflectDescriptorType,
        t \in {None} \cup { Some(td) : td \in BindingTypes } }

Image2D == TypeDescription("", {}, 0, 0, 0, 0, "Type2d", <<>>)

\* the bindings the descriptor sets are made of: their binding indices
\* descend, and one is of an unsupported kind
SetBindings ==
    { DescriptorBinding(1, "u_camera", "UniformBuffer", Some(CameraType)),
      DescriptorBinding(0, "Texture", "SampledImage", Some(Image2D)),
      DescriptorBinding(0, "s", "Sampler", Some(Image2D)),
      DescriptorBinding(2, "buf", "StorageBuffer", Some(CameraType)) }

DescriptorSets ==
    { DescriptorSet(s, bs) : s \in {0, 1}, bs \in SeqsUpTo(SetBindings, MaxBindings) }

\* the descriptor sets the modules are made of
ModuleSets ==
    { DescriptorSet(1, << DescriptorBinding(0, "Texture", "SampledImage", Some(Image2D)) >>),
      DescriptorSet(0, << DescriptorBinding(0, "u_camera", "UniformBuffer", Some(CameraType)) >>),
      DescriptorSet(0, << DescriptorBinding(1, "s", "Sampler", Some(Image2D)),
                          DescriptorBinding(0, "Texture", "SampledImage", Some(Image2D)) >>),
      DescriptorSet(2, <<>>),
      DescriptorSet(3, << DescriptorBinding(0, "buf", "StorageBuffer", Some(CameraType)) >>) }

Err(e) == [tag |-> "Err", err |-> e]

ShaderModule(entry_point_name, descriptor_sets) ==
    [entry_point_name |-> entry_point_name, descriptor_sets |-> descriptor_sets]

\* bytecode the library fails to load, bytecode whose descriptor sets it
\* fails to enumerate, and bytecode it reflects
SpirvData ==
    {Err("InvalidModule")}
    \cup {Ok(ShaderModule("main", Err("EnumerateFailed")))}
    \cup { Ok(ShaderModule("main", Ok(sets))) : sets \in SeqsUpTo(ModuleSets, MaxSets) }

(***************************************************************************)
(* The calls.  Init draws a pending call of one of the functions with its  *)
(* argument; the function's action applies it and records the outcome.    *)
(***************************************************************************)
Pending(op, arg) == [op |-> op, arg |-> arg, out |-> None]

IsPending(op) == call.op = op /\ call.out = None

Done(op) == call.op = op /\ call.out # None

InitCall ==
    \/ \E t \in ImageTypes : call = Pending("reflect_dimension", t)
    \/ \E t \in NumericTypes : call = Pending("number_type", t)
    \/ \E t \in NumericTypes : call = Pending("reflect_uniform_numeric", t)
    \/ \E t \in LeafTypes \cup MemberLeaves \cup StructTypes :
          call = Pending("reflect_uniform", t)
    \/ \E b \in DescriptorBindings : call = Pending("reflect_binding", b)
    \/ \E s \in DescriptorSets : call = Pending("reflect_bind_group", s)
    \/ \E d \in SpirvData : call = Pending("get_shader_layout", d)

NoWalk ==
    /\ root = None
    /\ stack = <<>>
    /\ visited = <<>>
    /\ result = None

Init == InitCall /\ NoWalk

CallReflectDimension ==
    /\ IsPending("reflect_dimension")
    /\ call' = [call EXCEPT !.out = reflect_dimension(call.arg)]
    /\ UNCHANGED <<root, stack, visited, result>>

CallNumberType ==
    /\ IsPending("number_type")
    /\ call' = [call EXCEPT !.out = number_type(call.arg)]
    /\ UNCHANGED <<root, stack, visited, result>>

CallReflectUniformNumeric ==
    /\ IsPending("reflect_uniform_numeric")
    /\ call' = [call EXCEPT !.out = reflect_uniform_numeric(call.arg)]
    /\ UNCHANGED <<root, stack, visited, result>>

CallReflectUniform ==
    /\ IsPending("reflect_uniform")
    /\ call' = [call EXCEPT !.out = reflect_uniform(call.arg)]
    /\ UNCHANGED <<root, stack, visited, result>>

CallReflectBinding ==
    /\ IsPending("reflect_binding")
    /\ call' = [call EXCEPT !.out = reflect_binding(call.arg)]
    /\ UNCHANGED <<root, stack, visited, result>>

CallReflectBindGroup ==
    /\ IsPending("reflect_bind_group")
    /\ call' = [call EXCEPT !.out = reflect_bind_group(call.arg)]
    /\ UNCHANGED <<root, stack, visited, result>>

CallGetShaderLayout ==
    /\ IsPending("get_shader_layout")
    /\ call' = [call EXCEPT !.out = get_shader_layout(call.arg)]
    /\ UNCHANGED <<root, stack, visited, result>>

Next ==
    \/ CallReflectDimension
    \/ CallNumberType
    \/ CallReflectUniformNumeric
    \/ CallReflectUniform
    \/ CallReflectBinding
    \/ CallReflectBindGroup
    \/ CallGetShaderLayout

Spec == Init /\ [][Next]_vars

(***************************************************************************)
(* The recursion of reflect_uniform, one call at a time.  root is the type *)
(* reflect_uniform is called with; a frame of stack is a running           *)
(* reflect_uniform_struct: the path of its type from the root and the      *)
(* properties pushed so far; visited lists the paths of the types          *)
(* reflect_uniform was called with, in call order; result is the outcome   *)
(* of the outermost call.  A panic unwinds every frame.                    *)
(***************************************************************************)
RECURSIVE NodeAt(_, _)

NodeAt(type_description, path) ==
    IF path = <<>>
    THEN type_description
    ELSE NodeAt(type_description.members[Head(path)], Tail(path))

Frame(path) == [path |-> path, properties |-> <<>>]

\* the caller receives property p: the struct on top of the stack pushes
\* it, or the outermost call returns it
Return(frames, p) ==
    IF frames = <<>>
    THEN /\ stack' = <<>>
         /\ result' = Ok(p)
    ELSE /\ stack' = [frames EXCEPT ![Len(frames)].properties = Append(@, p)]
         /\ UNCHANGED result

\* Enter recursing on the struct's own type where it is to recurse on the
\* member
Enter_same_type(frames, path) ==
    LET own == IF frames = <<>> THEN path ELSE frames[Len(frames)].path
        type_description == NodeAt(root, own)
    IN  /\ visited' = Append(visited, own)
        /\ IF "STRUCT" \in type_description.type_flags
           THEN /\ stack' = Append(frames, Frame(own))
                /\ UNCHANGED result
           ELSE LET t == reflect_uniform_numeric(type_description)
                IN  IF t.tag = "Panic"
                    THEN /\ stack' = <<>>
                         /\ result' = t
                    ELSE Return(frames, UniformProperty(type_description.type_name, t.val))

\* reflect_uniform is called with the type at path, below the frames given
Enter(frames, path) ==
    LET type_description == NodeAt(root, path)
    IN  /\ visited' = Append(visited, path)
        /\ IF "STRUCT" \in type_description.type_flags
           THEN /\ stack' = Append(frames, Frame(path))
                /\ UNCHANGED result
           ELSE LET t == reflect_uniform_numeric(type_description)
                IN  IF t.tag = "Panic"
                    THEN /\ stack' = <<>>
                         /\ result' = t
                    ELSE Return(frames, UniformProperty(type_description.type_name, t.val))

WalkTypes == StructTypes \cup MemberLeaves

WalkInit ==
    /\ call = None
    /\ root \in WalkTypes
    /\ stack = <<>>
    /\ visited = <<>>
    /\ result = None

\* the outermost call
WalkRoot ==
    /\ visited = <<>>
    /\ result = None
    /\ Enter(<<>>, <<>>)
    /\ UNCHANGED <<call, root>>

\* line 125: the next member of the struct on top of the stack
WalkMember ==
    /\ stack # <<>>
    /\ LET top == stack[Len(stack)]
           i == Len(top.properties) + 1
       IN  /\ i <= Len(NodeAt(root, top.path).members)
           /\ Enter(stack, Append(top.path, i))
    /\ UNCHANGED <<call, root>>

\* lines 128 and 116-119: the struct on top of the stack has no member left
WalkReturn ==
    /\ stack # <<>>
    /\ LET top == stack[Len(stack)]
           type_description == NodeAt(root, top.path)
       IN  /\ Len(top.properties) = Len(type_description.members)
           /\ Return(SubSeq(stack, 1, Len(stack) - 1),
                     UniformProperty(type_description.type_name, Struct(top.properties)))
    /\ UNCHANGED <<call, root, visited>>

WalkNext ==
    \/ WalkRoot
    \/ WalkMember
    \/ WalkReturn

WalkSpec == WalkInit /\ [][WalkNext]_vars /\ WF_vars(WalkNext)

(***************************************************************************)
(* The failures of the error taxonomy, as the code raises them.            *)
(***************************************************************************)
LoadError(err) == Panic("Failed to reflect shader layout", [err |-> err])

MissingTypeDescription == Panic("unwrap on None", [none |-> TRUE])

UnsupportedBindingType(kind) == Panic("unsupported bind type", [descriptor_type |-> kind])

UnsupportedImageDimension(dim) == Panic("unsupported image dimension", [dimension |-> dim])

InvalidSignedness(value) == Panic("unexpected signedness", [signedness |-> value])

UnrecognizedTypeFlags(flags) == Panic("unexpected type flag", [type_flags |-> flags])

UnsupportedMatrixShape(class, cols, rows) ==
    Panic("unexpected uniform property matrix format",
          [number_type |-> class, column_count |-> cols, row_count |-> rows])

UnsupportedVectorShape(class, count) ==
    Panic("unexpected uniform property format",
          [number_type |-> class, component_count |-> count])

\* the number classes: NumberType::UInt, NumberType::Int, NumberType::Float
Unsigned == "UInt"

Signed == "Int"

Float == "Float"

(***************************************************************************)
(* C1                                                                      *)
(***************************************************************************)
\* C1: every failure of get_shader_layout and of the operations it calls is
\* returned to the caller as a typed error value; no call ends in a panic.
C1_FailuresAreReturned ==
    call.out # None => call.out.tag \in {"Ok", "Err"}

(***************************************************************************)
(* C5                                                                      *)
(***************************************************************************)
\* the number class of a numeric leaf, as the claim's table gives it
C5_Class(t) ==
    IF "INT" \in t.type_flags
    THEN IF t.signedness = 0 THEN Ok(Unsigned)
         ELSE IF t.signedness = 1 THEN Ok(Signed)
         ELSE InvalidSignedness(t.signedness)
    ELSE IF "FLOAT" \in t.type_flags THEN Ok(Float)
         ELSE UnrecognizedTypeFlags(t.type_flags)

\* C5: the number class of a numeric leaf is Unsigned for the integer flag
\* with signedness 0, Signed with signedness 1, the failure
\* InvalidSignedness(value) with any other signedness, Float for the
\* floating-point flag without the integer flag, and the failure
\* UnrecognizedTypeFlags(flags) with neither flag; resolving the leaf ends in
\* these failures whatever its matrix flag and its dimensions are.
C5_NumberClass ==
    /\ Done("number_type") => call.out = C5_Class(call.arg)
    /\ Done("reflect_uniform_numeric") =>
          (C5_Class(call.arg).tag = "Panic" => call.out = C5_Class(call.arg))

\* a matrix-flagged integer leaf of signedness 2 has failed with InvalidSignedness(2)
C5_Witness ==
    /\ Done("reflect_uniform_numeric")
    /\ {"INT", "MATRIX"} \subseteq call.arg.type_flags
    /\ call.arg.signedness = 2
    /\ call.arg.column_count = 4
    /\ call.arg.row_count = 4
    /\ call.out = InvalidSignedness(2)

(***************************************************************************)
(* C6                                                                      *)
(***************************************************************************)
\* the shape of a numeric leaf of number class c, as the claim's tables give it
C6_Shape(c, t) ==
    IF "MATRIX" \in t.type_flags
    THEN IF c = Float /\ t.column_count = 3 /\ t.row_count = 3
         THEN Ok(UniformPropertyType("Mat3"))
         ELSE IF c = Float /\ t.column_count = 4 /\ t.row_count = 4
         THEN Ok(UniformPropertyType("Mat4"))
         ELSE UnsupportedMatrixShape(c, t.column_count, t.row_count)
    ELSE IF c = Signed /\ t.component_count = 1 THEN Ok(UniformPropertyType("Int"))
         ELSE IF c = Float /\ t.component_count = 3 THEN Ok(UniformPropertyType("Vec3"))
         ELSE IF c = Float /\ t.component_count = 4 THEN Ok(UniformPropertyType("Vec4"))
         ELSE IF c = Unsigned /\ t.component_count = 4 THEN Ok(UniformPropertyType("UVec4"))
         ELSE UnsupportedVectorShape(c, t.component_count)

\* C6: a numeric leaf whose number class is resolved gives, with the matrix
\* flag, Mat3 for (Float, 3, 3), Mat4 for (Float, 4, 4) and
\* UnsupportedMatrixShape(class, cols, rows) otherwise, whatever the component
\* count; without the matrix flag, Int for (Signed, 1), Vec3 for (Float, 3),
\* Vec4 for (Float, 4), UInt4 for (Unsigned, 4) and
\* UnsupportedVectorShape(class, count) otherwise.
C6_Shapes ==
    Done("reflect_uniform_numeric") =>
        (C5_Class(call.arg).tag = "Ok" =>
            call.out = C6_Shape(C5_Class(call.arg).val, call.arg))

\* a 4x4 float matrix whose component count is not 4 has resolved to Mat4
C6_Witness ==
    /\ Done("reflect_uniform_numeric")
    /\ {"FLOAT", "MATRIX"} \subseteq call.arg.type_flags
    /\ "INT" \notin call.arg.type_flags
    /\ call.arg.column_count = 4
    /\ call.arg.row_count = 4
    /\ call.arg.component_count = 1
    /\ call.out = Ok(UniformPropertyType("Mat4"))

(***************************************************************************)
(* C7                                                                      *)
(***************************************************************************)
C7_Supported == {"Type1d", "Type2d", "Type3d", "Cube"}

C7_Map(dim) ==
    IF dim = "Type1d" THEN Ok("D1")
    ELSE IF dim = "Type2d" THEN Ok("D2")
    ELSE IF dim = "Type3d" THEN Ok("D3")
    ELSE IF dim = "Cube" THEN Ok("Cube")
    ELSE UnsupportedImageDimension(dim)

\* C7: reflect_dimension maps 1D to D1, 2D to D2, 3D to D3 and Cube to Cube
\* and fails with UnsupportedImageDimension(dim) for every other
\* dimensionality; a sampled-image binding of such a dimensionality fails
\* with it and yields no Binding.
C7_Dimensions ==
    /\ Done("reflect_dimension") => call.out = C7_Map(call.arg.dim)
    /\ Done("reflect_binding") =>
          (/\ call.arg.descriptor_type = "SampledImage"
           /\ call.arg.type_description # None
           /\ call.arg.type_description.val.dim \notin C7_Supported
           => /\ call.out.tag # "Ok"
              /\ call.out = UnsupportedImageDimension(call.arg.type_description.val.dim))

\* a sampled-image binding of a sub-pass input has failed
C7_Witness ==
    /\ Done("reflect_binding")
    /\ call.arg.descriptor_type = "SampledImage"
    /\ call.arg.type_description # None
    /\ call.arg.type_description.val.dim = "SubpassData"
    /\ call.out = UnsupportedImageDimension("SubpassData")

(***************************************************************************)
(* C2                                                                      *)
(***************************************************************************)
C2_Supported == {"UniformBuffer", "SampledImage", "Sampler"}

\* C2: reflect_binding(b) returns a Binding with b's binding index; a uniform
\* buffer gives the type's declared name and Uniform with dynamic = false
\* and properties = [reflect_uniform(type)]; a sampled image gives the
\* instance name and SampledTexture with dimension = reflect_dimension(type)
\* and multisampled = false; a sampler gives the instance name and Sampler;
\* every other kind fails with UnsupportedBindingType(kind).  (A failure of
\* reflect_uniform or reflect_dimension is the failure of reflect_binding.)
C2_Binding ==
    Done("reflect_binding") =>
        LET b == call.arg
            kind == b.descriptor_type
            out == call.out
        IN  /\ out.tag = "Ok" => out.val.index = b.binding
            /\ kind = "UniformBuffer" /\ b.type_description # None =>
                  LET p == reflect_uniform(b.type_description.val)
                  IN  IF p.tag = "Ok"
                      THEN out = Ok(Binding(b.binding, Uniform(FALSE, <<p.val>>),
                                            b.type_description.val.type_name))
                      ELSE out = p
            /\ kind = "SampledImage" /\ b.type_description # None =>
                  LET d == reflect_dimension(b.type_description.val)
                  IN  IF d.tag = "Ok"
                      THEN out = Ok(Binding(b.binding, SampledTexture(d.val, FALSE), b.name))
                      ELSE out = d
            /\ kind = "Sampler" => out = Ok(Binding(b.binding, Sampler, b.name))
            /\ kind \notin C2_Supported => out = UnsupportedBindingType(kind)

\* what C2 says holds of the bindings that have a type description
ReflectBindingWithType ==
    Done("reflect_binding") /\ call.arg.type_description # None => C2_Binding

(***************************************************************************)
(* C10                                                                     *)
(***************************************************************************)
\* C10: reflect_binding fails for a missing type description only when the
\* kind needs it: a sampler without a type description is reflected to a
\* Sampler binding with the instance name, an unsupported kind without one
\* fails with UnsupportedBindingType, and only uniform buffers and sampled
\* images without one fail with MissingTypeDescription.
C10_MissingTypeOnlyWhenRequired ==
    Done("reflect_binding") =>
        LET b == call.arg
            kind == b.descriptor_type
            out == call.out
        IN  /\ out = MissingTypeDescription =>
                  b.type_description = None /\ kind \in {"UniformBuffer", "SampledImage"}
            /\ b.type_description = None =>
                  /\ kind \in {"UniformBuffer", "SampledImage"} => out = MissingTypeDescription
                  /\ kind = "Sampler" => out = Ok(Binding(b.binding, Sampler, b.name))
                  /\ kind \notin C2_Supported => out = UnsupportedBindingType(kind)

(***************************************************************************)
(* C3                                                                      *)
(***************************************************************************)
\* one Binding per descriptor binding, in the same order
C3_Bindings(descriptor_bindings, bindings) ==
    /\ Len(bindings) = Len(descriptor_bindings)
    /\ \A j \in 1 .. Len(descriptor_bindings) :
          reflect_binding(descriptor_bindings[j]) = Ok(bindings[j])

\* one BindGroup per descriptor set, in the same order, with the set's index
C3_Groups(descriptor_sets, bind_groups) ==
    /\ Len(bind_groups) = Len(descriptor_sets)
    /\ \A i \in 1 .. Len(descriptor_sets) :
          /\ bind_groups[i].set = descriptor_sets[i].set
          /\ C3_Bindings(descriptor_sets[i].bindings, bind_groups[i].bindings)

\* C3: when get_shader_layout succeeds, bind_groups has one BindGroup per
\* descriptor set in the enumeration order, none filtered, merged or
\* deduplicated; the i-th carries the i-th set's index and one Binding per
\* binding of that set in the set's order (not sorted by index).
C3_OrderPreserved ==
    /\ Done("get_shader_layout") /\ call.out.tag = "Ok" =>
          /\ call.arg.tag = "Ok"
          /\ call.arg.val.descriptor_sets.tag = "Ok"
          /\ C3_Groups(call.arg.val.descriptor_sets.val, call.out.val.bind_groups)
    /\ Done("reflect_bind_group") /\ call.out.tag = "Ok" =>
          /\ call.out.val.set = call.arg.set
          /\ C3_Bindings(call.arg.bindings, call.out.val.bindings)

\* a layout of two sets of the same index, the second with two bindings
\* whose indices descend, has been reflected
C3_Witness ==
    /\ Done("get_shader_layout")
    /\ call.out.tag = "Ok"
    /\ Len(call.out.val.bind_groups) = 2
    /\ call.out.val.bind_groups[1].set = call.out.val.bind_groups[2].set
    /\ Len(call.out.val.bind_groups[2].bindings) = 2
    /\ call.out.val.bind_groups[2].bindings[1].index
          > call.out.val.bind_groups[2].bindings[2].index

(***************************************************************************)
(* C4                                                                      *)
(***************************************************************************)
\* C4: reflect_uniform(type) returns a UniformProperty named by the type's
\* declared name; with the struct flag its property_type is Struct(members),
\* as long as the type's member list, the i-th being reflect_uniform of the
\* i-th member (a failing member fails the struct); a member whose name is
\* empty is resolved like any other: Camera with one unnamed mat4 gives
\* UniformProperty("Camera", Struct([UniformProperty("", Mat4)])).
C4_StructMembers ==
    Done("reflect_uniform") =>
        LET t == call.arg
            out == call.out
        IN  /\ out.tag = "Ok" => out.val.name = t.type_name
            /\ "STRUCT" \in t.type_flags =>
                  IF \A i \in 1 .. Len(t.members) : reflect_uniform(t.members[i]).tag = "Ok"
                  THEN /\ out.tag = "Ok"
                       /\ out.val.property_type.variant = "Struct"
                       /\ Len(out.val.property_type.properties) = Len(t.members)
                       /\ \A i \in 1 .. Len(t.members) :
                             Ok(out.val.property_type.properties[i])
                                = reflect_uniform(t.members[i])
                  ELSE out.tag # "Ok"
            /\ t = CameraType =>
                  out = Ok(UniformProperty("Camera",
                              Struct(<<UniformProperty("", UniformPropertyType("Mat4"))>>)))

\* a block of a nested struct holding a vec3, then an unnamed mat4, has resolved
C4_Witness ==
    /\ Done("reflect_uniform")
    /\ call.arg = NestedType
    /\ call.out =
          Ok(UniformProperty("Camera",
                Struct(<<UniformProperty("Light",
                            Struct(<<UniformProperty("v", UniformPropertyType("Vec3"))>>)),
                         UniformProperty("", UniformPropertyType("Mat4"))>>)))

(***************************************************************************)
(* C8                                                                      *)
(***************************************************************************)
RECURSIVE Paths(_, _), MemberPaths(_, _, _)

\* the paths of the types of the tree below path, the type at path first
\* and then its members in declaration order
Paths(type_description, path) ==
    <<path>> \o MemberPaths(type_description, path, 1)

MemberPaths(type_description, path, i) ==
    IF i > Len(type_description.members)
    THEN <<>>
    ELSE Paths(type_description.members[i], Append(path, i))
            \o MemberPaths(type_description, path, i + 1)

Visits(path) == Cardinality({ k \in 1 .. Len(visited) : visited[k] = path })

AllPaths == { Paths(root, <<>>)[k] : k \in 1 .. Len(Paths(root, <<>>)) }

C8_Visits ==
    /\ \A path \in AllPaths : Visits(path) <= 1
    /\ Len(visited) <= Len(Paths(root, <<>>))
    /\ visited = SubSeq(Paths(root, <<>>), 1, Len(visited))
    /\ result # None => stack = <<>>
    /\ result.tag = "Ok" =>
          /\ \A path \in AllPaths : Visits(path) = 1
          /\ result = reflect_uniform(root)
    /\ result.tag = "Panic" =>
          /\ visited # <<>>
          /\ result = reflect_uniform_numeric(NodeAt(root, visited[Len(visited)]))
          /\ result = reflect_uniform(root)

C8_FailureWitness ==
    /\ result.tag = "Panic"
    /\ Len(visited) < Len(Paths(root, <<>>))

====
